---- MODULE Spec2Model ----
(***************************************************************************)
(* Model of the cache-and-regenerate controller of the export server       *)
(* (backend main.go): dbHandler, getCachedDB, generateDB,                  *)
(* compressWithZstd and serveCachedDB, run by concurrent requests over the *)
(* package-level cache variables, cacheMutex and the filesystem.           *)
(*                                                                         *)
(* Time is counted in units of five minutes.  A file path is <<"db", k>> for the k-th    *)
(* name handed out by os.CreateTemp and <<"zst", k>> for that name with    *)
(* ".zst" appended; the empty string is NoPath.                            *)
(*                                                                         *)
(* AuthSpec puts authMiddleware in front of dbHandler, with requests that  *)
(* carry any of a set of header values.  URLSpec runs normalizeURL, step   *)
(* by step, on a column value and then on its own result; EmailSpec runs   *)
(* hashEmail on two emails.  Strings are sequences of characters.          *)
(***************************************************************************)
EXTENDS Integers, Sequences, FiniteSets, TLC

\* ------------------------------------------------------------------ bounds
NumReq == 3
MaxTime == 2
\* requests that arrive in the liveness and authentication specifications
NumLive == 2
\* most pieces an input of normalizeURL is put together from
MaxParts == 3
\* most pieces an argument of hashEmail is put together from
MaxEmailParts == 2
\* most rows in a warehouse query result
MaxRows == 2

\* --------------------------------------------------------------- constants
\* cacheTTL = 5 * time.Minute: one unit of the clock
cacheTTL == 1
\* apiKey: API_KEY from the environment, or the generated key
apiKey == <<"k", "1">>

Req == 1..NumReq
\* requests that arrive in the liveness and authentication specifications
LiveReq == 1..NumLive
None == 0
NoPath == <<>>
\* The zero time.Time of an unset cacheCreatedAt: further back than any TTL.
ZeroTime == 0 - (cacheTTL + 1)

VARIABLES
    now,                  \* wall clock (units of five minutes)
    cachedCompressedPath, \* published artifact path, NoPath when unset
    cacheCreatedAt,       \* time of publication
    writer,               \* cacheMutex: request that called Lock and excludes new readers
    readers,              \* cacheMutex: requests holding the read lock
    disk,                 \* paths that exist on the filesystem
    complete,             \* paths whose content is fully written and closed
    nextTmp,              \* next unique name os.CreateTemp hands out
    pc,                   \* per request: position in dbHandler
    dbPath,               \* per request: path returned by getCachedDB / generateDB
    tmpPath,              \* per request: tmpPath local of generateDB
    status,               \* per request: HTTP status written (0 = none yet)
    genErr,               \* per request: generateDB returned an error
    regen,                \* history: request entered the regenerating body
    exported,             \* history: request ran the Export Generator
    missPubs,             \* history: publications made when getCachedDB missed
    checked,              \* history: the request's double-check: "no" (not made),
                          \*   "late" (made more than cacheTTL after the first
                          \*   publication that followed its miss) or "timely"
    pubLog,               \* history: sequence of publications [path, at, by]
    authHeader,           \* per request: value of its Authorization header
    apiKeyHeader,         \* per request: value of its X-API-Key header
    urlIn,                \* normalizeURL: its argument ns, [Valid, String]
    url,                  \* normalizeURL: its local variable url
    upc,                  \* normalizeURL: position in the function
    urlOut,               \* normalizeURL: value returned, [Valid, String]
    urlFirst,             \* value returned by the first of two calls in a row
    round,                \* 1 in the first call, 2 in the call on its result
    emailSalt,            \* key of the email digest, set by main at startup
    emailA,               \* hashEmail: argument of one call
    emailB,               \* hashEmail: argument of another call
    hashA,                \* hashEmail: value returned for emailA
    hashB,                \* hashEmail: value returned for emailB
    mpc,                  \* which of the two calls of hashEmail is next
    src,                  \* copy: rows of the two warehouse query results
    tbl,                  \* copy: the table being copied
    cpc,                  \* copy: position in copyApprovedProjects / copyProjectMentions
    delivered,            \* copy: rows that rows.Next has yielded so far
    cur,                  \* copy: the row that rows.Scan reads
    txRows,               \* copy: rows inserted in the open transaction
    cnt,                  \* copy: the local count
    table,                \* copy: committed rows of the two SQLite tables
    result,               \* copy: per table "none", "ok" (nil error) or "err"
    count,                \* copy: per table the count returned
    streamErr,            \* history: rows.Next stopped on an error of the row stream
    statErr,              \* paths for which os.Stat fails with an error other than not-exist
    fast,                 \* check: what getCachedDB returned
    slow                  \* check: what the double-check of generateDB decided

cacheVars == <<cachedCompressedPath, cacheCreatedAt>>
lockVars == <<writer, readers>>
fsVars == <<disk, complete, nextTmp>>
reqVars == <<pc, dbPath, tmpPath, status, genErr>>
histVars == <<regen, exported, missPubs, checked, pubLog>>
hdrVars == <<authHeader, apiKeyHeader>>
urlVars == <<urlIn, url, upc, urlOut, urlFirst, round>>
serverVars == <<now, cacheVars, lockVars, fsVars, reqVars, histVars, hdrVars>>
mailVars == <<emailSalt, emailA, emailB, hashA, hashB, mpc>>
copyVars == <<src, tbl, cpc, delivered, cur, txRows, cnt, table, result, count, streamErr>>
checkVars == <<statErr, fast, slow>>
vars == <<serverVars, urlVars, mailVars, copyVars, checkVars>>

\* ------------------------------------------------------------------ strings
\* A string is the sequence of its characters; "" is <<>>.
UpperCase == <<"A", "B", "C", "D", "E", "F", "G", "H", "I", "J", "K", "L", "M",
               "N", "O", "P", "Q", "R", "S", "T", "U", "V", "W", "X", "Y", "Z">>
LowerCase == <<"a", "b", "c", "d", "e", "f", "g", "h", "i", "j", "k", "l", "m",
               "n", "o", "p", "q", "r", "s", "t", "u", "v", "w", "x", "y", "z">>

\* unicode.ToLower on one character
LowerChar(c) ==
    IF \E i \in 1..Len(UpperCase) : UpperCase[i] = c
    THEN LowerCase[CHOOSE i \in 1..Len(UpperCase) : UpperCase[i] = c]
    ELSE c

\* only the first character lowercased
ToLowerFirst(s) == [i \in 1..Len(s) |-> IF i = 1 THEN LowerChar(s[i]) ELSE s[i]]

\* strings.ToLower
ToLower(s) == [i \in 1..Len(s) |-> LowerChar(s[i])]

\* unicode.IsSpace
IsSpace(c) == c \in {" ", "\t"}

\* strings.TrimSpace
RECURSIVE TrimSpace(_)
TrimSpace(s) ==
    IF s = <<>> THEN s
    ELSE IF IsSpace(Head(s)) THEN TrimSpace(Tail(s))
    ELSE IF IsSpace(s[Len(s)]) THEN TrimSpace(SubSeq(s, 1, Len(s) - 1))
    ELSE s

\* strings.Fields: the maximal runs of non-space characters
RECURSIVE Fields(_)
Fields(s) ==
    IF s = <<>> THEN <<>>
    ELSE IF IsSpace(Head(s)) THEN Fields(Tail(s))
    ELSE IF \E i \in 1..Len(s) : IsSpace(s[i])
         THEN LET i == CHOOSE i \in 1..Len(s) :
                           IsSpace(s[i]) /\ \A j \in 1..(i - 1) : ~IsSpace(s[j])
              IN <<SubSeq(s, 1, i - 1)>> \o Fields(SubSeq(s, i + 1, Len(s)))
         ELSE <<s>>

\* strings.Join(parts, "")
RECURSIVE Join(_)
Join(parts) == IF parts = <<>> THEN <<>> ELSE Head(parts) \o Join(Tail(parts))

\* strings.HasPrefix
HasPrefix(s, prefix) ==
    Len(s) >= Len(prefix) /\ SubSeq(s, 1, Len(prefix)) = prefix

\* strings.HasSuffix
HasSuffix(s, suffix) ==
    Len(s) >= Len(suffix) /\ SubSeq(s, Len(s) - Len(suffix) + 1, Len(s)) = suffix

\* strings.TrimRight(s, cutset) for a one-character cutset
RECURSIVE TrimRight(_, _)
TrimRight(s, c) ==
    IF s # <<>> /\ s[Len(s)] = c THEN TrimRight(SubSeq(s, 1, Len(s) - 1), c) ELSE s

\* strings.TrimSuffix: one occurrence of the suffix is removed
TrimSuffix(s, suffix) ==
    IF HasSuffix(s, suffix) THEN SubSeq(s, 1, Len(s) - Len(suffix)) ELSE s

\* strings.Index: the zero-based offset of the first occurrence, or -1
Index(s, sub) ==
    LET at == {i \in 0..(Len(s) - Len(sub)) : SubSeq(s, i + 1, i + Len(sub)) = sub}
    IN IF at = {} THEN 0 - 1
       ELSE CHOOSE i \in at : \A j \in at : i <= j

\* strings.Contains
Contains(s, sub) == Index(s, sub) # 0 - 1

\* strings.Split(s, sep) for a one-character separator
RECURSIVE Split(_, _)
Split(s, sep) ==
    IF \E i \in 1..Len(s) : s[i] = sep
    THEN LET i == CHOOSE i \in 1..Len(s) : s[i] = sep /\ \A j \in 1..(i - 1) : s[j] # sep
         IN <<SubSeq(s, 1, i - 1)>> \o Split(SubSeq(s, i + 1, Len(s)), sep)
    ELSE <<s>>

\* ------------------------------------------------------------ pure helpers
DbPath(k) == <<"db", k>>
\* outputPath := inputPath + ".zst"
ZstPath(p) == <<"zst", p[2]>>

\* time.Since(t)
Since(t) == now - t

\* os.Stat(p): nil error when the file exists, a not-exist error when it does
\* not, and another error (permission, I/O) for the paths in statErr
Stat(p) ==
    IF p \in statErr THEN "other"
    ELSE IF p \in disk THEN "ok" ELSE "notexist"

\* getCachedDB with the expiry test off by one (an entry aged exactly cacheTTL is stale)
getCachedDBOffByOne ==
    IF cachedCompressedPath = NoPath \/ Since(cacheCreatedAt) >= cacheTTL
    THEN <<NoPath, FALSE>>
    ELSE IF Stat(cachedCompressedPath) = "notexist"
         THEN <<NoPath, FALSE>>
         ELSE <<cachedCompressedPath, TRUE>>

\* getCachedDB's decision: <<path, fromCache>>
\* (getCachedDBNoTTL: the entry is never taken to be expired)
getCachedDBNoTTL ==
    IF cachedCompressedPath = NoPath
    THEN <<NoPath, FALSE>>
    ELSE IF Stat(cachedCompressedPath) = "notexist"
         THEN <<NoPath, FALSE>>
         ELSE <<cachedCompressedPath, TRUE>>

getCachedDBResult ==
    IF cachedCompressedPath = NoPath \/ Since(cacheCreatedAt) > cacheTTL
    THEN <<NoPath, FALSE>>
    ELSE IF Stat(cachedCompressedPath) = "notexist"
         THEN <<NoPath, FALSE>>
         ELSE <<cachedCompressedPath, TRUE>>

\* generateDB without the double-check: every caller regenerates
DoubleCheckNever == FALSE

\* a double-check that forgets the TTL
DoubleCheckNoTTL ==
    /\ cachedCompressedPath # NoPath
    /\ Stat(cachedCompressedPath) = "ok"

\* generateDB's double-check under the exclusive lock
DoubleCheckFresh ==
    /\ cachedCompressedPath # NoPath
    /\ Since(cacheCreatedAt) <= cacheTTL
    /\ Stat(cachedCompressedPath) = "ok"

\* a lock that admits every caller
MutexFreeAlways == TRUE

\* sync.RWMutex: Lock is granted to one caller at a time
MutexFree == writer = None
\* sync.RWMutex: a caller of Lock waits for the active readers to leave
ReadersGone == readers = {}
\* sync.RWMutex: RLock is granted unless a Lock call is pending or holding
MayRLock == writer = None

\* pcs at which a request holds the exclusive lock
Body == {"recheck", "removeOld", "createTemp", "openSQLite", "createTables",
         "copyProjects", "copyMentions", "closeSQLite", "zCreate", "zEncoder",
         "zOpen", "zCopy", "zClose", "zErr", "removeTmp", "publish"}
\* pcs of the regenerating body (after the double-check failed)
Regen == Body \ {"recheck"}

\* nil, and the NULL sql.NullString
Nil == [Valid |-> FALSE, String |-> <<>>]

\* no call of normalizeURL is in progress
NoCall ==
    /\ urlIn = Nil
    /\ url = <<>>
    /\ upc = "idle"
    /\ urlOut = Nil
    /\ urlFirst = Nil
    /\ round = 1

\* the values EMAIL_SALT, or the generated salt, may have
Salts == {<<"s", "1">>, <<"s", "2">>}

\* no call of hashEmail is in progress
NoHash ==
    /\ emailSalt = <<"s", "1">>
    /\ emailA = <<>>
    /\ emailB = <<>>
    /\ hashA = <<>>
    /\ hashB = <<>>
    /\ mpc = "idle"

\* the two tables of the export
Tables == {"projects", "mentions"}

\* no copy is in progress
NoCopy ==
    /\ src = [t \in Tables |-> <<>>]
    /\ tbl = "projects"
    /\ cpc = "idle"
    /\ delivered = 0
    /\ cur = <<>>
    /\ txRows = <<>>
    /\ cnt = 0
    /\ table = [t \in Tables |-> <<>>]
    /\ result = [t \in Tables |-> "none"]
    /\ count = [t \in Tables |-> 0]
    /\ streamErr = [t \in Tables |-> FALSE]

\* the value of fast and slow before the call
NotCalled == <<"not called">>

\* os.Stat fails with no other error, and the two checks are not compared
NoCheck ==
    /\ statErr = {}
    /\ fast = NotCalled
    /\ slow = NotCalled

InitServer ==
    /\ now = 0
    /\ cachedCompressedPath = NoPath
    /\ cacheCreatedAt = ZeroTime
    /\ writer = None
    /\ readers = {}
    /\ disk = {}
    /\ complete = {}
    /\ nextTmp = 1
    /\ pc = [r \in Req |-> "getCachedDB"]
    /\ dbPath = [r \in Req |-> NoPath]
    /\ tmpPath = [r \in Req |-> NoPath]
    /\ status = [r \in Req |-> 0]
    /\ genErr = [r \in Req |-> FALSE]
    /\ regen = [r \in Req |-> FALSE]
    /\ exported = [r \in Req |-> FALSE]
    /\ missPubs = [r \in Req |-> 0]
    /\ checked = [r \in Req |-> "no"]
    /\ pubLog = <<>>
    /\ authHeader = [r \in Req |-> <<>>]
    /\ apiKeyHeader = [r \in Req |-> apiKey]

Init == InitServer /\ NoCall /\ NoHash /\ NoCopy /\ NoCheck

\* The clock advances at any moment.
Tick ==
    /\ now < MaxTime
    /\ now' = now + 1
    /\ UNCHANGED <<cacheVars, lockVars, fsVars, reqVars, histVars>>
    /\ UNCHANGED <<hdrVars, urlVars, mailVars, copyVars, checkVars>>

\* --------------------------------------------------------------- getCachedDB
\* cacheMutex.RLock()
RLock(r) ==
    /\ pc[r] = "getCachedDB"
    /\ MayRLock
    /\ readers' = readers \cup {r}
    /\ pc' = [pc EXCEPT ![r] = "rlocked"]
    /\ UNCHANGED <<now, cacheVars, writer, fsVars, dbPath, tmpPath, status, genErr, histVars>>
    /\ UNCHANGED <<hdrVars, urlVars, mailVars, copyVars, checkVars>>

\* the checks of getCachedDB, its return and the deferred RUnlock
GetCachedDB(r) ==
    /\ pc[r] = "rlocked"
    /\ readers' = readers \ {r}
    /\ dbPath' = [dbPath EXCEPT ![r] = getCachedDBResult[1]]
    /\ pc' = [pc EXCEPT ![r] = IF getCachedDBResult[2] THEN "logAge" ELSE "generateDB"]
    /\ missPubs' = [missPubs EXCEPT ![r] = Len(pubLog)]
    /\ UNCHANGED <<now, cacheVars, writer, fsVars, tmpPath, status, genErr,
                   regen, exported, checked, pubLog>>
    /\ UNCHANGED <<hdrVars, urlVars, mailVars, copyVars, checkVars>>

\* dbHandler: log line reading cacheCreatedAt after the lock was released
LogAge(r) ==
    /\ pc[r] = "logAge"
    /\ pc' = [pc EXCEPT ![r] = "serve"]
    /\ UNCHANGED <<now, cacheVars, lockVars, fsVars, dbPath, tmpPath, status, genErr, histVars>>
    /\ UNCHANGED <<hdrVars, urlVars, mailVars, copyVars, checkVars>>

\* ---------------------------------------------------------------- generateDB
\* cacheMutex.Lock(): the call is admitted and from now on excludes new readers
Lock(r) ==
    /\ pc[r] = "generateDB"
    /\ MutexFree
    /\ writer' = r
    /\ pc' = [pc EXCEPT ![r] = "lockWait"]
    /\ UNCHANGED <<now, cacheVars, readers, fsVars, dbPath, tmpPath, status, genErr, histVars>>
    /\ UNCHANGED <<hdrVars, urlVars, mailVars, copyVars, checkVars>>

\* cacheMutex.Lock() returns once the active readers have left
LockAcquired(r) ==
    /\ pc[r] = "lockWait"
    /\ ReadersGone
    /\ pc' = [pc EXCEPT ![r] = "recheck"]
    /\ UNCHANGED <<now, cacheVars, lockVars, fsVars, dbPath, tmpPath, status, genErr, histVars>>
    /\ UNCHANGED <<hdrVars, urlVars, mailVars, copyVars, checkVars>>

\* an error return that leaves cacheMutex locked
ReturnErrNoUnlock(r) ==
    /\ genErr' = [genErr EXCEPT ![r] = TRUE]
    /\ status' = [status EXCEPT ![r] = 500]
    /\ pc' = [pc EXCEPT ![r] = "done"]
    /\ UNCHANGED <<cacheVars, writer>>

\* an error return that also clears the cache entry
ReturnErrInvalidate(r) ==
    /\ writer' = None
    /\ genErr' = [genErr EXCEPT ![r] = TRUE]
    /\ status' = [status EXCEPT ![r] = 500]
    /\ pc' = [pc EXCEPT ![r] = "done"]
    /\ cachedCompressedPath' = NoPath
    /\ cacheCreatedAt' = ZeroTime

\* generateDB returns an error: the deferred Unlock runs, dbHandler answers 500
ReturnErr(r) ==
    /\ writer' = None
    /\ genErr' = [genErr EXCEPT ![r] = TRUE]
    /\ status' = [status EXCEPT ![r] = 500]
    /\ pc' = [pc EXCEPT ![r] = "done"]
    /\ UNCHANGED cacheVars

\* os.Remove(p)
Remove(p) ==
    /\ disk' = disk \ {p}
    /\ complete' = complete \ {p}

\* compressWithZstd error paths that forget os.Remove(outputPath)
zCleanupMissing(r) == UNCHANGED <<disk, complete>>

\* compressWithZstd's os.Remove(outputPath) on its error paths
zCleanup(r) == Remove(ZstPath(tmpPath[r]))

\* the double-check after the lock is acquired
RecheckRestamps(r) ==
    /\ pc[r] = "recheck"
    /\ checked' = [checked EXCEPT ![r] =
           IF /\ Len(pubLog) > missPubs[r]
              /\ now - pubLog[missPubs[r] + 1].at > cacheTTL
           THEN "late" ELSE "timely"]
    /\ \/ /\ DoubleCheckFresh
          /\ dbPath' = [dbPath EXCEPT ![r] = cachedCompressedPath]
          /\ cacheCreatedAt' = now
          /\ writer' = None
          /\ pc' = [pc EXCEPT ![r] = "serve"]
          /\ UNCHANGED regen
       \/ /\ ~DoubleCheckFresh
          /\ regen' = [regen EXCEPT ![r] = TRUE]
          /\ pc' = [pc EXCEPT ![r] = "removeOld"]
          /\ UNCHANGED <<dbPath, writer, cacheCreatedAt>>
    /\ UNCHANGED <<now, cachedCompressedPath, readers, fsVars, tmpPath, status, genErr,
                   exported, missPubs, pubLog>>
    /\ UNCHANGED <<hdrVars, urlVars, mailVars, copyVars, checkVars>>

Recheck(r) ==
    /\ pc[r] = "recheck"
    /\ checked' = [checked EXCEPT ![r] =
           IF /\ Len(pubLog) > missPubs[r]
              /\ now - pubLog[missPubs[r] + 1].at > cacheTTL
           THEN "late" ELSE "timely"]
    /\ \/ /\ DoubleCheckFresh
          /\ dbPath' = [dbPath EXCEPT ![r] = cachedCompressedPath]
          /\ writer' = None
          /\ pc' = [pc EXCEPT ![r] = "serve"]
          /\ UNCHANGED regen
       \/ /\ ~DoubleCheckFresh
          /\ regen' = [regen EXCEPT ![r] = TRUE]
          /\ pc' = [pc EXCEPT ![r] = "removeOld"]
          /\ UNCHANGED <<dbPath, writer>>
    /\ UNCHANGED <<now, cacheVars, readers, fsVars, tmpPath, status, genErr,
                   exported, missPubs, pubLog>>
    /\ UNCHANGED <<hdrVars, urlVars, mailVars, copyVars, checkVars>>

\* "Remove old cached file if it exists"
RemoveOld(r) ==
    /\ pc[r] = "removeOld"
    /\ IF cachedCompressedPath # NoPath
       THEN Remove(cachedCompressedPath)
       ELSE UNCHANGED <<disk, complete>>
    /\ pc' = [pc EXCEPT ![r] = "createTemp"]
    /\ UNCHANGED <<now, cacheVars, lockVars, nextTmp, dbPath, tmpPath, status, genErr, histVars>>
    /\ UNCHANGED <<hdrVars, urlVars, mailVars, copyVars, checkVars>>

\* os.CreateTemp("", "cached-db-*.db"), tmpFile.Close()
CreateTemp(r) ==
    /\ pc[r] = "createTemp"
    /\ \/ /\ disk' = disk \cup {DbPath(nextTmp)}
          /\ nextTmp' = nextTmp + 1
          /\ tmpPath' = [tmpPath EXCEPT ![r] = DbPath(nextTmp)]
          /\ pc' = [pc EXCEPT ![r] = "openSQLite"]
          /\ UNCHANGED <<cacheVars, writer, status, genErr>>
       \/ /\ ReturnErr(r)
          /\ UNCHANGED <<disk, nextTmp, tmpPath>>
    /\ UNCHANGED <<now, readers, complete, dbPath, histVars>>
    /\ UNCHANGED <<hdrVars, urlVars, mailVars, copyVars, checkVars>>

\* a step of generateDB between file creation and compression that either
\* succeeds and moves on or fails, removes tmpPath and returns the error
GenStepIgnoresError(r, from, to) ==
    /\ pc[r] = from
    /\ \/ /\ pc' = [pc EXCEPT ![r] = to]
          /\ UNCHANGED <<cacheVars, writer, status, genErr, disk, complete>>
       \/ /\ pc' = [pc EXCEPT ![r] = to]
          /\ genErr' = [genErr EXCEPT ![r] = TRUE]
          /\ UNCHANGED <<cacheVars, writer, status, disk, complete>>
    /\ UNCHANGED <<now, readers, nextTmp, dbPath, tmpPath>>

GenStep(r, from, to) ==
    /\ pc[r] = from
    /\ \/ /\ pc' = [pc EXCEPT ![r] = to]
          /\ UNCHANGED <<cacheVars, writer, status, genErr, disk, complete>>
       \/ /\ Remove(tmpPath[r])
          /\ ReturnErr(r)
    /\ UNCHANGED <<now, readers, nextTmp, dbPath, tmpPath>>

\* sql.Open("sqlite", tmpPath)
OpenSQLite(r) ==
    /\ GenStep(r, "openSQLite", "createTables")
    /\ UNCHANGED histVars
    /\ UNCHANGED <<hdrVars, urlVars, mailVars, copyVars, checkVars>>

\* createSQLiteTables(sqliteDB)
CreateTables(r) ==
    /\ GenStep(r, "createTables", "copyProjects")
    /\ UNCHANGED histVars
    /\ UNCHANGED <<hdrVars, urlVars, mailVars, copyVars, checkVars>>

\* copyApprovedProjects(sqliteDB)
CopyProjects(r) ==
    /\ GenStep(r, "copyProjects", "copyMentions")
    /\ exported' = [exported EXCEPT ![r] = TRUE]
    /\ UNCHANGED <<regen, missPubs, checked, pubLog>>
    /\ UNCHANGED <<hdrVars, urlVars, mailVars, copyVars, checkVars>>

\* copyProjectMentions(sqliteDB)
CopyMentions(r) ==
    /\ GenStep(r, "copyMentions", "closeSQLite")
    /\ UNCHANGED histVars
    /\ UNCHANGED <<hdrVars, urlVars, mailVars, copyVars, checkVars>>

\* sqliteDB.Close() "to flush all data"
CloseSQLite(r) ==
    /\ pc[r] = "closeSQLite"
    /\ complete' = complete \cup {tmpPath[r]}
    /\ pc' = [pc EXCEPT ![r] = "zCreate"]
    /\ UNCHANGED <<now, cacheVars, lockVars, disk, nextTmp, dbPath, tmpPath, status, genErr, histVars>>
    /\ UNCHANGED <<hdrVars, urlVars, mailVars, copyVars, checkVars>>

\* ---------------------------------------------------------- compressWithZstd
\* os.Create(outputPath)
zCreate(r) ==
    /\ pc[r] = "zCreate"
    /\ \/ /\ disk' = disk \cup {ZstPath(tmpPath[r])}
          /\ pc' = [pc EXCEPT ![r] = "zEncoder"]
       \/ /\ pc' = [pc EXCEPT ![r] = "zErr"]
          /\ UNCHANGED disk
    /\ UNCHANGED <<now, cacheVars, lockVars, complete, nextTmp, dbPath, tmpPath, status, genErr, histVars>>
    /\ UNCHANGED <<hdrVars, urlVars, mailVars, copyVars, checkVars>>

\* a failing step that would remove the input file together with the output
zStepDropsInput(r, from, to) ==
    /\ pc[r] = from
    /\ \/ /\ pc' = [pc EXCEPT ![r] = to]
          /\ UNCHANGED <<disk, complete>>
       \/ /\ disk' = disk \ {tmpPath[r], ZstPath(tmpPath[r])}
          /\ complete' = complete \ {tmpPath[r], ZstPath(tmpPath[r])}
          /\ pc' = [pc EXCEPT ![r] = "zErr"]
    /\ UNCHANGED <<now, cacheVars, lockVars, nextTmp, dbPath, tmpPath, status, genErr, histVars>>
    /\ UNCHANGED <<hdrVars, urlVars, mailVars, copyVars, checkVars>>

\* a step of compressWithZstd after the output exists: it succeeds, or removes
\* the output and returns the error
zStep(r, from, to) ==
    /\ pc[r] = from
    /\ \/ /\ pc' = [pc EXCEPT ![r] = to]
          /\ UNCHANGED <<disk, complete>>
       \/ /\ zCleanup(r)
          /\ pc' = [pc EXCEPT ![r] = "zErr"]
    /\ UNCHANGED <<now, cacheVars, lockVars, nextTmp, dbPath, tmpPath, status, genErr, histVars>>
    /\ UNCHANGED <<hdrVars, urlVars, mailVars, copyVars, checkVars>>

\* zstd.NewWriter(outputFile, ...)
zEncoder(r) == zStep(r, "zEncoder", "zOpen")

\* os.Open(inputPath)
zOpen(r) == zStep(r, "zOpen", "zCopy")

\* io.Copy(encoder, inputFile)
zCopy(r) == zStep(r, "zCopy", "zClose")

\* encoder.Close(), then the deferred inputFile.Close() and outputFile.Close()
zClose(r) ==
    /\ pc[r] = "zClose"
    /\ \/ /\ complete' = complete \cup {ZstPath(tmpPath[r])}
          /\ pc' = [pc EXCEPT ![r] = "removeTmp"]
          /\ UNCHANGED disk
       \/ /\ zCleanup(r)
          /\ pc' = [pc EXCEPT ![r] = "zErr"]
    /\ UNCHANGED <<now, cacheVars, lockVars, nextTmp, dbPath, tmpPath, status, genErr, histVars>>
    /\ UNCHANGED <<hdrVars, urlVars, mailVars, copyVars, checkVars>>

\* generateDB after compressWithZstd returned an error: os.Remove(tmpPath), return
CompressErrKeepsTmp(r) ==
    /\ pc[r] = "zErr"
    /\ ReturnErr(r)
    /\ UNCHANGED <<now, readers, fsVars, dbPath, tmpPath, histVars>>
    /\ UNCHANGED <<hdrVars, urlVars, mailVars, copyVars, checkVars>>

CompressErr(r) ==
    /\ pc[r] = "zErr"
    /\ Remove(tmpPath[r])
    /\ ReturnErr(r)
    /\ UNCHANGED <<now, readers, nextTmp, dbPath, tmpPath, histVars>>
    /\ UNCHANGED <<hdrVars, urlVars, mailVars, copyVars, checkVars>>

\* "Remove the uncompressed file"
RemoveTmpKeeps(r) ==
    /\ pc[r] = "removeTmp"
    /\ pc' = [pc EXCEPT ![r] = "publish"]
    /\ UNCHANGED <<now, cacheVars, lockVars, fsVars, dbPath, tmpPath, status, genErr, histVars>>
    /\ UNCHANGED <<hdrVars, urlVars, mailVars, copyVars, checkVars>>

RemoveTmp(r) ==
    /\ pc[r] = "removeTmp"
    /\ Remove(tmpPath[r])
    /\ pc' = [pc EXCEPT ![r] = "publish"]
    /\ UNCHANGED <<now, cacheVars, lockVars, nextTmp, dbPath, tmpPath, status, genErr, histVars>>
    /\ UNCHANGED <<hdrVars, urlVars, mailVars, copyVars, checkVars>>

\* "Update cache", return compressedPath, deferred Unlock
PublishNoStamp(r) ==
    /\ pc[r] = "publish"
    /\ cachedCompressedPath' = ZstPath(tmpPath[r])
    /\ dbPath' = [dbPath EXCEPT ![r] = ZstPath(tmpPath[r])]
    /\ writer' = None
    /\ pc' = [pc EXCEPT ![r] = "serve"]
    /\ pubLog' = Append(pubLog, [path |-> ZstPath(tmpPath[r]), at |-> now, by |-> r])
    /\ UNCHANGED <<now, cacheCreatedAt, readers, fsVars, tmpPath, status, genErr,
                   regen, exported, missPubs, checked>>
    /\ UNCHANGED <<hdrVars, urlVars, mailVars, copyVars, checkVars>>

Publish(r) ==
    /\ pc[r] = "publish"
    /\ cachedCompressedPath' = ZstPath(tmpPath[r])
    /\ cacheCreatedAt' = now
    /\ dbPath' = [dbPath EXCEPT ![r] = ZstPath(tmpPath[r])]
    /\ writer' = None
    /\ pc' = [pc EXCEPT ![r] = "serve"]
    /\ pubLog' = Append(pubLog, [path |-> ZstPath(tmpPath[r]), at |-> now, by |-> r])
    /\ UNCHANGED <<now, readers, fsVars, tmpPath, status, genErr,
                   regen, exported, missPubs, checked>>
    /\ UNCHANGED <<hdrVars, urlVars, mailVars, copyVars, checkVars>>

\* ------------------------------------------------------------ serveCachedDB
\* os.Open(compressedPath): 500 when it fails, else the file is streamed
ServeCachedDBInvalidates(r) ==
    /\ pc[r] = "serve"
    /\ status' = [status EXCEPT ![r] = IF dbPath[r] \in disk THEN 200 ELSE 500]
    /\ pc' = [pc EXCEPT ![r] = "done"]
    /\ cachedCompressedPath' = IF dbPath[r] \in disk THEN cachedCompressedPath ELSE NoPath
    /\ UNCHANGED <<now, cacheCreatedAt, lockVars, fsVars, dbPath, tmpPath, genErr, histVars>>
    /\ UNCHANGED <<hdrVars, urlVars, mailVars, copyVars, checkVars>>

ServeCachedDB(r) ==
    /\ pc[r] = "serve"
    /\ status' = [status EXCEPT ![r] = IF dbPath[r] \in disk THEN 200 ELSE 500]
    /\ pc' = [pc EXCEPT ![r] = "done"]
    /\ UNCHANGED <<now, cacheVars, lockVars, fsVars, dbPath, tmpPath, genErr, histVars>>
    /\ UNCHANGED <<hdrVars, urlVars, mailVars, copyVars, checkVars>>

\* ------------------------------------------------------------ specification
Step(r) ==
    \/ RLock(r) \/ GetCachedDB(r) \/ LogAge(r)
    \/ Lock(r) \/ LockAcquired(r) \/ Recheck(r) \/ RemoveOld(r)
    \/ CreateTemp(r) \/ OpenSQLite(r) \/ CreateTables(r)
    \/ CopyProjects(r) \/ CopyMentions(r) \/ CloseSQLite(r)
    \/ zCreate(r) \/ zEncoder(r) \/ zOpen(r) \/ zCopy(r) \/ zClose(r)
    \/ CompressErr(r) \/ RemoveTmp(r) \/ Publish(r)
    \/ ServeCachedDB(r)

Next == Tick \/ \E r \in Req : Step(r)

Spec == Init /\ [][Next]_vars

\* ------------------------------------------------------------ authMiddleware
Bearer == <<"B", "e", "a", "r", "e", "r">>
bearer == <<"b", "e", "a", "r", "e", "r">>

\* the same without lowercasing the scheme word
ProvidedKeyExactScheme(auth, xkey) ==
    IF auth # <<>>
    THEN LET parts == Split(auth, " ")
         IN IF Len(parts) = 2 /\ parts[1] = bearer
            THEN parts[2]
            ELSE auth
    ELSE xkey

\* the key authMiddleware takes from the two headers
ProvidedKey(auth, xkey) ==
    IF auth # <<>>
    THEN LET parts == Split(auth, " ")
         IN IF Len(parts) = 2 /\ ToLower(parts[1]) = bearer
            THEN parts[2]
            ELSE auth
    ELSE xkey

\* a comparison that ignores letter case
KeyMatchesAnyCase(providedKey) == ToLower(providedKey) = ToLower(apiKey)

\* subtle.ConstantTimeCompare([]byte(providedKey), []byte(apiKey)) == 1
KeyMatches(providedKey) == providedKey = apiKey

\* (Authorization, X-API-Key) header values that requests send
HeaderPairs ==
    { <<<<>>, <<>>>>,
      <<<<>>, apiKey>>,
      <<<<>>, <<"K", "1">>>>,
      <<Bearer \o <<" ">> \o apiKey, <<"K", "1">>>>,
      <<<<"B", "E", "A", "R", "E", "R", " ", "K", "1">>, <<>>>>,
      <<<<"B", "a", "s", "i", "c", " ">> \o apiKey, <<>>>>,
      <<<<"B", "a", "s", "i", "c", " ">> \o apiKey, apiKey>> }

\* the handler returned by authMiddleware(mux): 401 without calling next, or
\* next.ServeHTTP, which routes /db to dbHandler
AuthMiddleware(r) ==
    /\ pc[r] = "auth"
    /\ LET providedKey == ProvidedKey(authHeader[r], apiKeyHeader[r])
       IN \/ /\ providedKey = <<>>
             /\ status' = [status EXCEPT ![r] = 401]
             /\ pc' = [pc EXCEPT ![r] = "done"]
          \/ /\ providedKey # <<>>
             /\ ~KeyMatches(providedKey)
             /\ status' = [status EXCEPT ![r] = 401]
             /\ pc' = [pc EXCEPT ![r] = "done"]
          \/ /\ providedKey # <<>>
             /\ KeyMatches(providedKey)
             /\ pc' = [pc EXCEPT ![r] = "getCachedDB"]
             /\ UNCHANGED status
    /\ UNCHANGED <<now, cacheVars, lockVars, fsVars, dbPath, tmpPath, genErr, histVars>>
    /\ UNCHANGED <<hdrVars, urlVars, mailVars, copyVars, checkVars>>

\* requests arrive with any of the header values and have not yet been
\* through authMiddleware
InitAuth ==
    /\ now = 0
    /\ cachedCompressedPath = NoPath
    /\ cacheCreatedAt = ZeroTime
    /\ writer = None
    /\ readers = {}
    /\ disk = {}
    /\ complete = {}
    /\ nextTmp = 1
    /\ pc = [r \in Req |-> "auth"]
    /\ dbPath = [r \in Req |-> NoPath]
    /\ tmpPath = [r \in Req |-> NoPath]
    /\ status = [r \in Req |-> 0]
    /\ genErr = [r \in Req |-> FALSE]
    /\ regen = [r \in Req |-> FALSE]
    /\ exported = [r \in Req |-> FALSE]
    /\ missPubs = [r \in Req |-> 0]
    /\ checked = [r \in Req |-> "no"]
    /\ pubLog = <<>>
    /\ \E h \in [LiveReq -> HeaderPairs] :
           /\ authHeader = [r \in Req |-> IF r \in LiveReq THEN h[r][1] ELSE <<>>]
           /\ apiKeyHeader = [r \in Req |-> IF r \in LiveReq THEN h[r][2] ELSE <<>>]
    /\ NoCall
    /\ NoHash
    /\ NoCopy
    /\ NoCheck

NextAuth == Tick \/ \E r \in LiveReq : AuthMiddleware(r) \/ Step(r)

AuthSpec == InitAuth /\ [][NextAuth]_vars

\* -------------------------------------------------------------- normalizeURL
dangerousSchemes ==
    << <<"j", "a", "v", "a", "s", "c", "r", "i", "p", "t", ":">>,
       <<"d", "a", "t", "a", ":">>,
       <<"v", "b", "s", "c", "r", "i", "p", "t", ":">>,
       <<"f", "i", "l", "e", ":">> >>

httpPrefix == <<"h", "t", "t", "p", ":", "/", "/">>
httpsPrefix == <<"h", "t", "t", "p", "s", ":", "/", "/">>

\* whitespace removed at the two ends only
StripSpaceEnds(s) == TrimSpace(s)

\* strings.Join(strings.Fields(strings.TrimSpace(s)), "")
StripSpace(s) == Join(Fields(TrimSpace(s)))

\* the check of the scheme loop: some dangerous scheme is a prefix of url
Dangerous(u) == \E i \in 1..Len(dangerousSchemes) : HasPrefix(u, dangerousSchemes[i])

\* the prefix added to the empty string too
AddSchemeToEmpty(u) ==
    IF ~HasPrefix(u, httpPrefix) /\ ~HasPrefix(u, httpsPrefix)
    THEN httpsPrefix \o u
    ELSE u

\* "Add https:// if no scheme present"
AddScheme(u) ==
    IF u # <<>> /\ ~HasPrefix(u, httpPrefix) /\ ~HasPrefix(u, httpsPrefix)
    THEN httpsPrefix \o u
    ELSE u

\* strings.TrimRight(url, "/"), then strings.TrimSuffix(url, ".git")
StripTail(u) == TrimSuffix(TrimRight(u, "/"), <<".", "g", "i", "t">>)

\* "Remove /tree/... paths from GitHub URLs"
CutTree(u) ==
    IF Contains(u, <<"g", "i", "t", "h", "u", "b", ".", "c", "o", "m", "/">>)
    THEN LET idx == Index(u, <<"/", "t", "r", "e", "e", "/">>)
         IN IF idx # 0 - 1 THEN SubSeq(u, 1, idx) ELSE u
    ELSE u

\* if !ns.Valid || ns.String == "" { return nil }; trim, join the fields, lowercase
UrlStart ==
    /\ upc = "start"
    /\ \/ /\ ~urlIn.Valid \/ urlIn.String = <<>>
          /\ urlOut' = Nil
          /\ upc' = "ret"
          /\ UNCHANGED url
       \/ /\ urlIn.Valid /\ urlIn.String # <<>>
          /\ url' = ToLower(StripSpace(urlIn.String))
          /\ upc' = "scheme"
          /\ UNCHANGED urlOut
    /\ UNCHANGED <<urlIn, urlFirst, round>>
    /\ UNCHANGED <<serverVars, mailVars, copyVars, checkVars>>

\* for _, scheme := range dangerousSchemes
UrlScheme ==
    /\ upc = "scheme"
    /\ \/ /\ Dangerous(url)
          /\ urlOut' = Nil
          /\ upc' = "ret"
       \/ /\ ~Dangerous(url)
          /\ upc' = "prefix"
          /\ UNCHANGED urlOut
    /\ UNCHANGED <<urlIn, url, urlFirst, round>>
    /\ UNCHANGED <<serverVars, mailVars, copyVars, checkVars>>

UrlPrefix ==
    /\ upc = "prefix"
    /\ url' = AddScheme(url)
    /\ upc' = "tail"
    /\ UNCHANGED <<urlIn, urlOut, urlFirst, round>>
    /\ UNCHANGED <<serverVars, mailVars, copyVars, checkVars>>

UrlTail ==
    /\ upc = "tail"
    /\ url' = StripTail(url)
    /\ upc' = "tree"
    /\ UNCHANGED <<urlIn, urlOut, urlFirst, round>>
    /\ UNCHANGED <<serverVars, mailVars, copyVars, checkVars>>

\* the /tree/ cut, then: if url == "" { return nil }; return url
UrlTree ==
    /\ upc = "tree"
    /\ url' = CutTree(url)
    /\ urlOut' = IF url' = <<>> THEN Nil ELSE [Valid |-> TRUE, String |-> url']
    /\ upc' = "ret"
    /\ UNCHANGED <<urlIn, urlFirst, round>>
    /\ UNCHANGED <<serverVars, mailVars, copyVars, checkVars>>

\* the value returned is normalized once more (nil as NULL)
UrlAgain ==
    /\ upc = "ret"
    /\ round = 1
    /\ urlFirst' = urlOut
    /\ urlIn' = urlOut
    /\ url' = <<>>
    /\ urlOut' = Nil
    /\ round' = 2
    /\ upc' = "start"
    /\ UNCHANGED <<serverVars, mailVars, copyVars, checkVars>>

\* pieces of the URLs in the warehouse columns
URLParts ==
    { <<" ">>,
      <<"/">>,
      <<".", "g", "i", "t">>,
      <<"/", "t", "r", "e", "e", "/", "m">>,
      <<"/", "b", "l", "o", "b", "/", "m">>,
      <<"G", "i", "t", "H", "u", "b", ".", "c", "o", "m", "/", "u">>,
      <<"g", "i", "t", "l", "a", "b", ".", "c", "o", "m", "/", "u">>,
      <<"h", "t", "t", "p", "s", ":", "/", "/">>,
      <<"H", "T", "T", "P", ":", "/", "/">>,
      <<"x">>,
      <<"d", "a", "t", "a", ":">> }

\* the strings made of at most n pieces
RECURSIVE Concats(_)
Concats(n) ==
    IF n = 0 THEN {<<>>}
    ELSE LET shorter == Concats(n - 1)
         IN shorter \cup {p \o t : p \in URLParts, t \in shorter}

\* strings.ToUpper, for the spellings of a scheme
ToUpper(t) ==
    [i \in 1..Len(t) |->
        IF \E k \in 1..Len(LowerCase) : LowerCase[k] = t[i]
        THEN UpperCase[CHOOSE k \in 1..Len(LowerCase) : LowerCase[k] = t[i]]
        ELSE t[i]]

\* the first letter in upper case
Capitalize(t) == ToUpper(SubSeq(t, 1, 1)) \o SubSeq(t, 2, Len(t))

\* a dangerous scheme in lower, upper or capitalized spelling, with nothing,
\* a space or a tab put in at any place, alone or followed by a letter
SchemeInputs ==
    LET spellings ==
            UNION {{dangerousSchemes[i], ToUpper(dangerousSchemes[i]),
                    Capitalize(dangerousSchemes[i])} : i \in 1..Len(dangerousSchemes)}
    IN UNION { { SubSeq(c, 1, k) \o w \o SubSeq(c, k + 1, Len(c)) \o e :
                   k \in 0..Len(c),
                   w \in {<<>>, <<" ">>, <<"\t">>},
                   e \in {<<>>, <<"x">>} } : c \in spellings }

\* the column values normalizeURL is called with
URLInputs ==
    {Nil} \cup {[Valid |-> TRUE, String |-> t] : t \in Concats(MaxParts) \cup SchemeInputs}

InitURL ==
    /\ InitServer
    /\ NoHash
    /\ NoCopy
    /\ NoCheck
    /\ urlIn \in URLInputs
    /\ url = <<>>
    /\ upc = "start"
    /\ urlOut = Nil
    /\ urlFirst = Nil
    /\ round = 1

NextURL == UrlStart \/ UrlScheme \/ UrlPrefix \/ UrlTail \/ UrlTree \/ UrlAgain

URLSpec == InitURL /\ [][NextURL]_vars

\* ----------------------------------------------------------------- hashEmail
\* hex.EncodeToString of the HMAC-SHA256 of msg under key: a value fixed by
\* the pair (key, msg), different for different pairs, and never ""
HexHMAC(key, msg) == <<"hmac-sha256", key, msg>>

\* the digest of the lowercased email, untrimmed
hashEmailNoTrim(email) ==
    IF email = <<>> THEN <<>> ELSE HexHMAC(emailSalt, ToLower(email))

hashEmail(email) ==
    IF email = <<>>
    THEN <<>>
    ELSE HexHMAC(emailSalt, ToLower(TrimSpace(email)))

\* one call of hashEmail
HashA ==
    /\ mpc = "callA"
    /\ hashA' = hashEmail(emailA)
    /\ mpc' = "callB"
    /\ UNCHANGED <<emailSalt, emailA, emailB, hashB>>
    /\ UNCHANGED <<serverVars, urlVars, copyVars, checkVars>>

\* another call of hashEmail, later in the same process
HashB ==
    /\ mpc = "callB"
    /\ hashB' = hashEmail(emailB)
    /\ mpc' = "done"
    /\ UNCHANGED <<emailSalt, emailA, emailB, hashA>>
    /\ UNCHANGED <<serverVars, urlVars, copyVars, checkVars>>

\* pieces of the email column values
EmailParts == { <<" ">>, <<"a">>, <<"A">>, <<"@">> }

\* the strings made of at most n pieces
RECURSIVE Emails(_)
Emails(n) ==
    IF n = 0 THEN {<<>>}
    ELSE LET shorter == Emails(n - 1)
         IN shorter \cup {p \o t : p \in EmailParts, t \in shorter}

\* main has set emailSalt; two emails are about to be hashed
InitEmail ==
    /\ InitServer
    /\ NoCall
    /\ NoCopy
    /\ NoCheck
    /\ emailSalt \in Salts
    /\ emailA \in Emails(MaxEmailParts)
    /\ emailB \in Emails(MaxEmailParts)
    /\ hashA = <<>>
    /\ hashB = <<>>
    /\ mpc = "callA"

NextEmail == HashA \/ HashB

EmailSpec == InitEmail /\ [][NextEmail]_vars

\* ------------------------------------- copyApprovedProjects, copyProjectMentions
\* What a column of the warehouse scans into: sql.NullString, sql.NullFloat64,
\* sql.NullInt64, sql.NullBool.  A real number is written as the integer of
\* its tenths.
NullString == [Valid |-> FALSE, String |-> <<>>]
NullFloat64 == [Valid |-> FALSE, Float64 |-> 0]
NullInt64 == [Valid |-> FALSE, Int64 |-> 0]
NullBool == [Valid |-> FALSE, Bool |-> FALSE]

\* What an argument of stmt.Exec stores in a column.
SqlNull == <<"NULL">>
SqlText(t) == <<"TEXT", t>>
SqlReal(x) == <<"REAL", x>>
SqlInt(n) == <<"INTEGER", n>>

nullStringToPtr(ns) == IF ns.Valid THEN SqlText(ns.String) ELSE SqlNull

nullFloat64ToPtr(nf) == IF nf.Valid THEN SqlReal(nf.Float64) ELSE SqlNull

nullInt64ToPtr(ni) == IF ni.Valid THEN SqlInt(ni.Int64) ELSE SqlNull

\* nullBoolToInt (nullBoolToIntZero: a NULL flag written as 0)
nullBoolToIntZero(nb) == IF nb.Valid /\ nb.Bool THEN SqlInt(1) ELSE SqlInt(0)

nullBoolToInt(nb) ==
    IF nb.Valid
    THEN IF nb.Bool THEN SqlInt(1) ELSE SqlInt(0)
    ELSE SqlNull

\* normalizeURL as one function of its argument
normalizeURL(ns) ==
    IF ~ns.Valid \/ ns.String = <<>>
    THEN Nil
    ELSE LET u == ToLower(StripSpace(ns.String))
         IN IF Dangerous(u)
            THEN Nil
            ELSE LET v == CutTree(StripTail(AddScheme(u)))
                 IN IF v = <<>> THEN Nil ELSE [Valid |-> TRUE, String |-> v]

\* normalizeURL(...) as an argument of stmt.Exec: nil or the string
urlArg(ns) ==
    LET u == normalizeURL(ns)
    IN IF u.Valid THEN SqlText(u.String) ELSE SqlNull

\* var emailHash *string; if email.Valid && email.String != "" { ... }
\* (emailHashRaw: the email column passed on as it is)
emailHashRaw(email) == nullStringToPtr(email)

emailHash(email) ==
    IF email.Valid /\ email.String # <<>>
    THEN SqlText(hashEmail(email.String))
    ELSE SqlNull

\* the arguments of the INSERT INTO approved_projects: first_name stands for
\* the string columns passed through nullStringToPtr, code_url for the two
\* URL columns
ProjectArgs(row) ==
    [record_id |-> nullStringToPtr(row.record_id),
     first_name |-> nullStringToPtr(row.first_name),
     code_url |-> urlArg(row.code_url),
     hours_spent |-> nullFloat64ToPtr(row.hours_spent),
     age_when_approved |-> nullInt64ToPtr(row.age_when_approved),
     email_hash |-> emailHash(row.email)]

\* the arguments of the INSERT INTO ysws_project_mentions: url stands for the
\* three URL columns, mentions_hack_club for the two flags
MentionArgs(row) ==
    [id |-> nullStringToPtr(row.id),
     ysws_approved_project |-> nullStringToPtr(row.ysws_approved_project),
     url |-> urlArg(row.url),
     weighted_engagement_points |-> nullFloat64ToPtr(row.weighted_engagement_points),
     engagement_count |-> nullInt64ToPtr(row.engagement_count),
     mentions_hack_club |-> nullBoolToInt(row.mentions_hack_club)]

ExecArgs(t, row) == IF t = "projects" THEN ProjectArgs(row) ELSE MentionArgs(row)

\* record_id TEXT PRIMARY KEY, id TEXT PRIMARY KEY
PrimaryKey(t, stored) == IF t = "projects" THEN stored.record_id ELSE stored.id

\* SQLite refuses a key that a row of the table has; NULL keys do not collide
PrimaryKeyViolated(t, rows, key) ==
    /\ key # SqlNull
    /\ \E i \in 1..Len(rows) : PrimaryKey(t, rows[i]) = key

\* return 0, err: with tx.Rollback() where a transaction is open
CopyFail ==
    /\ txRows' = <<>>
    /\ result' = [result EXCEPT ![tbl] = "err"]
    /\ count' = [count EXCEPT ![tbl] = 0]
    /\ cpc' = "done"
    /\ UNCHANGED <<src, tbl, delivered, cur, cnt, table, streamErr>>

\* a step that goes on or returns the error
CopyStep(from, to) ==
    /\ cpc = from
    /\ \/ /\ cpc' = to
          /\ UNCHANGED <<src, tbl, delivered, cur, txRows, cnt, table, result, count, streamErr>>
       \/ CopyFail

\* pgDB.Query(...)
CopyQuery ==
    /\ CopyStep("query", "begin")
    /\ UNCHANGED <<serverVars, urlVars, mailVars, checkVars>>

\* sqliteDB.Begin()
CopyBegin ==
    /\ CopyStep("begin", "prepare")
    /\ UNCHANGED <<serverVars, urlVars, mailVars, checkVars>>

\* tx.Prepare(...)
CopyPrepare ==
    /\ CopyStep("prepare", "next")
    /\ UNCHANGED <<serverVars, urlVars, mailVars, checkVars>>

\* for rows.Next(): the next row, or false at the end of the result and
\* equally on an error of the row stream; rows.Err() is not consulted
RowsNext ==
    /\ cpc = "next"
    /\ \/ /\ delivered < Len(src[tbl])
          /\ delivered' = delivered + 1
          /\ cur' = src[tbl][delivered + 1]
          /\ cpc' = "scan"
          /\ UNCHANGED streamErr
       \/ /\ delivered = Len(src[tbl])
          /\ cpc' = "commit"
          /\ UNCHANGED <<delivered, cur, streamErr>>
       \/ /\ streamErr' = [streamErr EXCEPT ![tbl] = TRUE]
          /\ cpc' = "commit"
          /\ UNCHANGED <<delivered, cur>>
    /\ UNCHANGED <<src, tbl, txRows, cnt, table, result, count>>
    /\ UNCHANGED <<serverVars, urlVars, mailVars, checkVars>>

\* rows.Scan(...)
RowsScan ==
    /\ CopyStep("scan", "exec")
    /\ UNCHANGED <<serverVars, urlVars, mailVars, checkVars>>

\* stmt.Exec(...); count++
StmtExec ==
    /\ cpc = "exec"
    /\ LET args == ExecArgs(tbl, cur)
       IN \/ /\ ~PrimaryKeyViolated(tbl, txRows, PrimaryKey(tbl, args))
             /\ txRows' = Append(txRows, args)
             /\ cnt' = cnt + 1
             /\ cpc' = "next"
             /\ UNCHANGED <<src, tbl, delivered, cur, table, result, count, streamErr>>
          \/ CopyFail
    /\ UNCHANGED <<serverVars, urlVars, mailVars, checkVars>>

\* tx.Commit(); return count, nil.  generateDB then calls copyProjectMentions.
TxCommit ==
    /\ cpc = "commit"
    /\ \/ /\ table' = [table EXCEPT ![tbl] = txRows]
          /\ result' = [result EXCEPT ![tbl] = "ok"]
          /\ count' = [count EXCEPT ![tbl] = cnt]
          /\ txRows' = <<>>
          /\ cnt' = 0
          /\ delivered' = 0
          /\ cur' = <<>>
          /\ IF tbl = "projects"
             THEN tbl' = "mentions" /\ cpc' = "query"
             ELSE tbl' = tbl /\ cpc' = "done"
          /\ UNCHANGED <<src, streamErr>>
       \/ CopyFail
    /\ UNCHANGED <<serverVars, urlVars, mailVars, checkVars>>

\* rows of the approved_projects query result
ProjectRows ==
    { [record_id |-> [Valid |-> TRUE, String |-> <<"p", "1">>], first_name |-> [Valid |-> TRUE, String |-> <<"A", "n", "n">>], code_url |-> [Valid |-> TRUE, String |-> <<"G", "i", "t", "H", "u", "b", ".", "c", "o", "m", "/", "u", "/">>],
       hours_spent |-> [Valid |-> TRUE, Float64 |-> 15],
       age_when_approved |-> [Valid |-> TRUE, Int64 |-> 16], email |-> [Valid |-> TRUE, String |-> <<"A", "@", "b", " ">>]],
      [record_id |-> [Valid |-> TRUE, String |-> <<"p", "2">>], first_name |-> NullString, code_url |-> [Valid |-> TRUE, String |-> <<"g", "i", "t", "h", "u", "b", ".", "c", "o", "m", "/", "u">>],
       hours_spent |-> NullFloat64,
       age_when_approved |-> NullInt64, email |-> NullString],
      [record_id |-> [Valid |-> TRUE, String |-> <<"p", "1">>], first_name |-> [Valid |-> TRUE, String |-> <<>>], code_url |-> NullString,
       hours_spent |-> [Valid |-> TRUE, Float64 |-> 0],
       age_when_approved |-> [Valid |-> TRUE, Int64 |-> 0], email |-> [Valid |-> TRUE, String |-> <<" ">>]],
      [record_id |-> NullString, first_name |-> [Valid |-> TRUE, String |-> <<"B", "o">>], code_url |-> [Valid |-> TRUE, String |-> <<"x", ".", "i", "o">>],
       hours_spent |-> NullFloat64,
       age_when_approved |-> [Valid |-> TRUE, Int64 |-> 16], email |-> [Valid |-> TRUE, String |-> <<>>]] }

\* rows of the ysws_project_mentions query result
MentionRows ==
    { [id |-> [Valid |-> TRUE, String |-> <<"m", "1">>], ysws_approved_project |-> [Valid |-> TRUE, String |-> <<"p", "1">>], url |-> [Valid |-> TRUE, String |-> <<"H", "T", "T", "P", ":", "/", "/", "x", "/">>],
       weighted_engagement_points |-> [Valid |-> TRUE, Float64 |-> 25],
       engagement_count |-> [Valid |-> TRUE, Int64 |-> 3],
       mentions_hack_club |-> [Valid |-> TRUE, Bool |-> TRUE]],
      [id |-> [Valid |-> TRUE, String |-> <<"m", "2">>], ysws_approved_project |-> [Valid |-> TRUE, String |-> <<"z", "z">>], url |-> NullString,
       weighted_engagement_points |-> NullFloat64,
       engagement_count |-> NullInt64,
       mentions_hack_club |-> NullBool],
      [id |-> [Valid |-> TRUE, String |-> <<"m", "1">>], ysws_approved_project |-> NullString, url |-> [Valid |-> TRUE, String |-> <<"d", "a", "t", "a", ":", "x">>],
       weighted_engagement_points |-> [Valid |-> TRUE, Float64 |-> 0],
       engagement_count |-> [Valid |-> TRUE, Int64 |-> 0],
       mentions_hack_club |-> [Valid |-> TRUE, Bool |-> FALSE]] }

\* the sequences of at most n rows
SeqsUpTo(S, n) == UNION {[1..k -> S] : k \in 0..n}

\* generateDB is about to call copyApprovedProjects
InitCopy ==
    /\ InitServer
    /\ NoCall
    /\ NoHash
    /\ NoCheck
    /\ \E ps \in SeqsUpTo(ProjectRows, MaxRows), ms \in SeqsUpTo(MentionRows, MaxRows) :
           src = [t \in Tables |-> IF t = "projects" THEN ps ELSE ms]
    /\ tbl = "projects"
    /\ cpc = "query"
    /\ delivered = 0
    /\ cur = <<>>
    /\ txRows = <<>>
    /\ cnt = 0
    /\ table = [t \in Tables |-> <<>>]
    /\ result = [t \in Tables |-> "none"]
    /\ count = [t \in Tables |-> 0]
    /\ streamErr = [t \in Tables |-> FALSE]

NextCopy ==
    CopyQuery \/ CopyBegin \/ CopyPrepare \/ RowsNext \/ RowsScan \/ StmtExec \/ TxCommit

CopySpec == InitCopy /\ [][NextCopy]_vars

\* ------------------------------- getCachedDB against generateDB's double-check
\* what the first lines of generateDB decide: the cached path without
\* regenerating, or to regenerate
DoubleCheckResult ==
    IF DoubleCheckFresh THEN <<cachedCompressedPath, TRUE>> ELSE <<NoPath, FALSE>>

\* getCachedDB()
CallGetCachedDB ==
    /\ fast = NotCalled
    /\ fast' = getCachedDBResult
    /\ UNCHANGED <<statErr, slow>>
    /\ UNCHANGED <<serverVars, urlVars, mailVars, copyVars>>

\* generateDB() up to the end of its double-check
CallDoubleCheck ==
    /\ slow = NotCalled
    /\ slow' = DoubleCheckResult
    /\ UNCHANGED <<statErr, fast>>
    /\ UNCHANGED <<serverVars, urlVars, mailVars, copyVars>>

\* artifacts a cache entry may name
Artifacts == {ZstPath(DbPath(k)) : k \in 1..2}

\* Every cache entry the program can hold (never published, or published at
\* some time up to now), with the artifact present or deleted, and os.Stat
\* working or failing with another error.
InitCheck ==
    /\ now \in 0..MaxTime
    /\ \/ /\ cachedCompressedPath = NoPath
          /\ cacheCreatedAt = ZeroTime
          /\ disk = {}
          /\ statErr = {}
       \/ /\ cachedCompressedPath \in Artifacts
          /\ cacheCreatedAt \in 0..now
          /\ disk \in {{}, {cachedCompressedPath}}
          /\ statErr \in {{}, {cachedCompressedPath}}
    /\ complete = disk
    /\ nextTmp = 3
    /\ writer = None
    /\ readers = {}
    /\ pc = [r \in Req |-> "getCachedDB"]
    /\ dbPath = [r \in Req |-> NoPath]
    /\ tmpPath = [r \in Req |-> NoPath]
    /\ status = [r \in Req |-> 0]
    /\ genErr = [r \in Req |-> FALSE]
    /\ regen = [r \in Req |-> FALSE]
    /\ exported = [r \in Req |-> FALSE]
    /\ missPubs = [r \in Req |-> 0]
    /\ checked = [r \in Req |-> "no"]
    /\ pubLog = <<>>
    /\ authHeader = [r \in Req |-> <<>>]
    /\ apiKeyHeader = [r \in Req |-> apiKey]
    /\ fast = NotCalled
    /\ slow = NotCalled
    /\ NoCall
    /\ NoHash
    /\ NoCopy

NextCheck == CallGetCachedDB \/ CallDoubleCheck

CheckSpec == InitCheck /\ [][NextCheck]_vars

\* ================================================================== claims
\* a request has come back from generateDB with a path
Got(r) == checked[r] # "no" /\ pc[r] \in {"serve", "done"} /\ ~genErr[r]

\* C2: mutual exclusion.  While a request is in the regenerating body of
\* generateDB it owns cacheMutex, and no other request is inside generateDB's
\* locked body or inside getCachedDB's read section: the others neither
\* obtain a path nor reach a warehouse query until it has published or failed.
C2_MutualExclusion ==
    \A q \in Req :
        pc[q] \in Regen =>
            /\ writer = q
            /\ readers = {}
            /\ \A r \in Req \ {q} : pc[r] \notin Body \cup {"rlocked"}

\* C2 witness: a regeneration is copying while a second request waits on Lock
\* and a third has not yet got past RLock.
C2_Witness ==
    \E q, r, t \in Req :
        /\ pc[q] = "copyProjects"
        /\ pc[r] = "generateDB"
        /\ pc[t] = "getCachedDB"

\* C3 (as claimed): the file of the published entry is never removed while it
\* is still the published entry, i.e. the old artifact leaves the disk only
\* after a new entry has replaced it.
C3_OldDeletedOnlyAfterPublish ==
    [][(cachedCompressedPath \in disk) =>
          (cachedCompressedPath \in disk' \/ cachedCompressedPath' # cachedCompressedPath)]_vars

\* C4 (as claimed): when generateDB returns an error and an entry had been
\* published before, that entry's file still exists, is complete, and
\* getCachedDB still hands it out while it is within its TTL.
C4_NonDestructiveFailure ==
    [][\A r \in Req :
          (genErr'[r] /\ ~genErr[r] /\ cachedCompressedPath # NoPath) =>
              /\ cachedCompressedPath \in disk'
              /\ cachedCompressedPath \in complete'
              /\ (Since(cacheCreatedAt)' <= cacheTTL =>
                     getCachedDBResult' = <<cachedCompressedPath, TRUE>>)]_vars

\* C5 (as claimed): whenever no request holds the exclusive lock, a non-empty
\* published path names a file that exists and was completely written.
C5_CacheEntryInvariant ==
    ((\A r \in Req : pc[r] \notin Body) /\ cachedCompressedPath # NoPath) =>
        /\ cachedCompressedPath \in disk
        /\ cachedCompressedPath \in complete

C9_FailureLeavesEntry ==
    [][/\ cacheVars' # cacheVars =>
              \E r \in Req : /\ pc[r] = "publish" /\ pc'[r] = "serve"
                             /\ ~genErr'[r]
                             /\ cachedCompressedPath' = dbPath'[r]
       /\ \A r \in Req :
              (genErr'[r] /\ ~genErr[r]) =>
                  /\ cacheVars' = cacheVars
                  /\ tmpPath[r] # NoPath =>
                         cachedCompressedPath' \notin {tmpPath[r], ZstPath(tmpPath[r])}]_vars

\* C9 witness: a regeneration has failed while an earlier entry is published.
C9_Witness ==
    \E r \in Req :
        /\ genErr[r] /\ regen[r]
        /\ cachedCompressedPath # NoPath
        /\ pubLog # <<>>

\* C10: once generateDB has returned an error, neither the temporary database
\* file of that attempt nor its .zst output exists.
C10_NoLeftoverAfterError ==
    \A r \in Req :
        (genErr[r] /\ tmpPath[r] # NoPath) =>
            /\ tmpPath[r] \notin disk
            /\ ZstPath(tmpPath[r]) \notin disk

\* C10 witness: an attempt that had created its temporary file and run the
\* export has returned an error.
C10_Witness ==
    \E r \in Req : genErr[r] /\ tmpPath[r] # NoPath /\ exported[r]

\* C11: when compressWithZstd has returned an error (whichever of its steps
\* failed), its .zst output does not exist, and the uncompressed input file
\* is still on disk as sqliteDB.Close() left it.
C11_CompressFailureKeepsInput ==
    \A r \in Req :
        pc[r] = "zErr" =>
            /\ ZstPath(tmpPath[r]) \notin disk
            /\ ZstPath(tmpPath[r]) \notin complete
            /\ tmpPath[r] \in disk
            /\ tmpPath[r] \in complete

\* C11 witness: compressWithZstd has just returned an error for an attempt
\* whose export had run, before generateDB's own cleanup.
C11_Witness ==
    \E r \in Req : pc[r] = "zErr" /\ exported[r] /\ tmpPath[r] # NoPath /\ ~genErr[r]

\* the credential a request supplies, as authMiddleware reads it
Credential(r) == ProvidedKey(authHeader[r], apiKeyHeader[r])

NotSpace(c) == ~IsSpace(c)
\* the input with all whitespace removed and every letter in lower case
Canon(t) == ToLower(SelectSeq(t, NotSpace))
\* the input is NULL, empty or made of whitespace only
Blank(ns) == ~ns.Valid \/ SelectSeq(ns.String, NotSpace) = <<>>
\* the string begins with http:// or https://
HasWebPrefix(t) == HasPrefix(t, httpPrefix) \/ HasPrefix(t, httpsPrefix)
\* the host segment: what follows "://" up to the next "/"
Host(u) ==
    LET i == Index(u, <<":", "/", "/">>)
        rest == IF i = 0 - 1 THEN u ELSE SubSeq(u, i + 4, Len(u))
        j == Index(rest, <<"/">>)
    IN IF j = 0 - 1 THEN rest ELSE SubSeq(rest, 1, j)

\* C14 (as claimed): idempotence.  Normalizing the value normalizeURL
\* returned (nil taken as NULL) returns that same value.
C14_Idempotent ==
    (upc = "ret" /\ round = 2) => urlOut = urlFirst

\* C15: an input that begins with javascript:, data:, vbscript: or file:
\* once its whitespace is removed and its letters are lowercased is answered
\* nil, whatever the letter case and wherever the whitespace was.
C15_DangerousRejected ==
    (upc = "ret" /\ urlIn.Valid /\ Dangerous(Canon(urlIn.String))) => urlOut = Nil

\* C15 witness: nil was returned for a scheme spelled with capitals and with
\* whitespace inside it.
C15_Witness ==
    /\ upc = "ret" /\ round = 1 /\ urlOut = Nil
    /\ urlIn.Valid
    /\ Dangerous(Canon(urlIn.String))
    /\ ~Dangerous(ToLower(TrimSpace(urlIn.String)))
    /\ urlIn.String # ToLower(urlIn.String)

\* C16: for a NULL, empty or whitespace-only input, normalizeURL returns nil
\* and its url never holds anything: no prefix is put in front of nothing.
C16_BlankIsNil ==
    Blank(urlIn) =>
        /\ url = <<>>
        /\ urlOut = Nil

\* C16 witness: nil was returned for an input of two or more whitespace
\* characters.
C16_Witness ==
    /\ upc = "ret" /\ round = 1 /\ urlOut = Nil
    /\ urlIn.Valid /\ Len(urlIn.String) >= 2
    /\ Blank(urlIn)

C18_NoTrailingSlashOrGit ==
    (upc = "ret" /\ urlOut.Valid) =>
        /\ ~HasSuffix(urlOut.String, <<"/">>)
        /\ ~HasSuffix(urlOut.String, <<".", "g", "i", "t">>)

\* C19 (as claimed): the /tree/ step cuts url at its "/tree/" exactly when the
\* host segment is github.com (and there is a "/tree/"); with any other host,
\* and for a "/blob/" path without "/tree/", url is left as it is.
C19_TreeCutIffGitHubHost ==
    [][upc = "tree" =>
          LET idx == Index(url, <<"/", "t", "r", "e", "e", "/">>)
          IN /\ (url' # url) <=> (Host(url) = <<"g", "i", "t", "h", "u", "b", ".", "c", "o", "m">> /\ idx # 0 - 1)
             /\ (url' # url) => url' = SubSeq(url, 1, idx)
             /\ (idx = 0 - 1 /\ Contains(url, <<"/", "b", "l", "o", "b", "/">>)) => url' = url]_vars

\* ---------------------------------------------------- claims about hashEmail
\* the two emails differ at most in letter case and in whitespace at the ends
SameButCaseAndEnds(a, b) == ToLower(TrimSpace(a)) = ToLower(TrimSpace(b))

\* C20 (as claimed): two calls with the same email, or with emails that
\* differ only in letter case or in leading and trailing whitespace, return
\* the same digest, keyed with the one emailSalt of the process.
C20_SameDigestAlways ==
    mpc = "done" =>
        /\ emailA = emailB => hashA = hashB
        /\ SameButCaseAndEnds(emailA, emailB) => hashA = hashB
        /\ hashA # <<>> => hashA[2] = emailSalt
        /\ hashB # <<>> => hashB[2] = emailSalt

\* C20 (amended): the same for two non-empty emails; the empty string gets ""
\* and no digest, while an email of whitespace only gets the digest of "".
C20_SameDigest ==
    mpc = "done" =>
        /\ emailA = emailB => hashA = hashB
        /\ (emailA # <<>> /\ emailB # <<>> /\ SameButCaseAndEnds(emailA, emailB)) =>
               (hashA = hashB /\ hashA # <<>>)
        /\ emailA = <<>> <=> hashA = <<>>
        /\ hashA # <<>> => hashA[2] = emailSalt
        /\ hashB # <<>> => hashB[2] = emailSalt

\* C20 witness: two different emails, one with a capital and one with
\* whitespace at an end, have got the same digest.
C20_Witness ==
    /\ mpc = "done"
    /\ emailA # emailB
    /\ ToLower(emailA) # ToLower(emailB)
    /\ TrimSpace(emailA) # TrimSpace(emailB)
    /\ Len(TrimSpace(emailA)) >= 1
    /\ hashA = hashB
    /\ hashA # <<>>

\* two distinct requests that both missed in getCachedDB against the same
\* cache entry (no publication between their misses) and both came back from
\* generateDB with a path
SameFlight(r1, r2) ==
    /\ r1 # r2
    /\ Got(r1) /\ Got(r2)
    /\ missPubs[r1] = missPubs[r2]

\* the request made its double-check no later than cacheTTL after the first
\* publication that followed its miss
InTime(r) ==
    /\ Len(pubLog) > missPubs[r]
    /\ checked[r] = "timely"

\* C1 (as claimed): requests that missed the same empty or expired entry and
\* whose generateDB calls succeeded obtained the same path, and only one of
\* them ran the Export Generator.
C1_SingleFlightAlways ==
    \A r1, r2 \in Req :
        SameFlight(r1, r2) =>
            /\ dbPath[r1] = dbPath[r2]
            /\ ~(exported[r1] /\ exported[r2])

\* C1 (amended): the same, for requests that make their double-check within
\* cacheTTL of the publication: they all obtain the path of that one
\* publication, whose publisher ran the Export Generator, and none of them
\* but the publisher ran it.
C1_SingleFlight ==
    \A r1, r2 \in Req :
        (SameFlight(r1, r2) /\ InTime(r1) /\ InTime(r2)) =>
            LET pub == pubLog[missPubs[r1] + 1]
            IN /\ dbPath[r1] = pub.path
               /\ dbPath[r2] = pub.path
               /\ exported[pub.by]
               /\ \A r \in {r1, r2} : (regen[r] \/ exported[r]) => r = pub.by

\* C1 witness: two requests missed the same entry; one regenerated and
\* published, the other waited for the lock and returned the same path
\* without running the export.
C1_Witness ==
    \E r1, r2 \in Req :
        /\ SameFlight(r1, r2) /\ InTime(r1) /\ InTime(r2)
        /\ exported[r1] /\ ~exported[r2] /\ ~regen[r2]
        /\ dbPath[r2] = dbPath[r1]
        /\ dbPath[r1] # NoPath

\* C8: an error return of generateDB touches only the request that ran the
\* failed attempt, and a request that gets the lock with no publication made
\* since its own miss in getCachedDB finds the cache not fresh and runs its
\* own attempt; so as long as every attempt fails, every caller of
\* generateDB makes one.
C8_WaitersRetry ==
    [][/\ \A r \in Req :
              (genErr'[r] /\ ~genErr[r]) =>
                  /\ pc[r] \in Regen
                  /\ \A q \in Req \ {r} :
                         /\ genErr'[q] = genErr[q]
                         /\ status'[q] = status[q]
                         /\ dbPath'[q] = dbPath[q]
                         /\ pc'[q] = pc[q]
       /\ \A r \in Req :
              (pc[r] = "recheck" /\ pc'[r] # "recheck" /\ Len(pubLog) = missPubs[r]) =>
                  (pc'[r] = "removeOld" /\ regen'[r])
       /\ \A r \in Req :
              (pubLog' = <<>> /\ checked'[r] # "no" /\ pc'[r] \in {"serve", "done"}) =>
                  (regen'[r] /\ genErr'[r] /\ status'[r] = 500)]_vars

\* C8 witness: nothing was ever published and every request has made its own
\* failed attempt.
C8_Witness ==
    /\ pubLog = <<>>
    /\ \A r \in Req : regen[r] /\ genErr[r] /\ pc[r] = "done"

\* ------------------------------------------------------------------ liveness
\* Every request that can take a step eventually takes one: the Go scheduler
\* runs every runnable goroutine, and each export and compression step
\* terminates.
NextLive == Tick \/ \E r \in LiveReq : Step(r)

Fairness == \A r \in LiveReq : WF_vars(Step(r))

FairSpec == Init /\ [][NextLive]_vars /\ Fairness

\* C7: a request outside generateDB's locked body never owns cacheMutex (the
\* lock is released on every exit, success or failure), and every request
\* that calls generateDB eventually gets the lock and returns a path or an
\* error.
C7_LockReleased ==
    /\ [](\A r \in LiveReq : pc[r] \notin Body \cup {"lockWait"} => writer # r)
    /\ \A r \in LiveReq : (pc[r] = "generateDB") ~> (pc[r] \in {"serve", "done"})

\* C7 witness: a request made its attempt and came back from generateDB after
\* an earlier caller's attempt had failed.
C7_Witness ==
    \E q, r \in LiveReq :
        /\ genErr[q] /\ tmpPath[q] # NoPath /\ tmpPath[r] # NoPath
        /\ tmpPath[q][2] < tmpPath[r][2]
        /\ pc[r] \in {"serve", "done"}
        /\ writer = None

\* Rows written so far for table t: the committed rows, or the rows of the
\* open transaction while t is being copied.
Written(t) == IF tbl = t /\ cpc # "done" THEN txRows ELSE table[t]

ProjectColumns ==
    {"record_id", "first_name", "code_url", "hours_spent", "age_when_approved", "email_hash"}

\* C21: in every Project row written by copyApprovedProjects, email_hash is
\* NULL when the source email is NULL or empty and otherwise the text of an
\* HMAC-SHA256 digest keyed with the salt, and no column of the row holds the
\* source row's email.
C21_EmailOnlyHashed ==
    \A i \in 1..Len(Written("projects")) :
        LET w == Written("projects")[i]
            e == src["projects"][i].email
        IN /\ (~e.Valid \/ e.String = <<>>) => w.email_hash = SqlNull
           /\ (e.Valid /\ e.String # <<>>) =>
                  /\ w.email_hash[1] = "TEXT"
                  /\ Len(w.email_hash[2]) = 3
                  /\ w.email_hash[2][1] = "hmac-sha256"
                  /\ w.email_hash[2][2] = emailSalt
           /\ e.Valid => \A c \in ProjectColumns : w[c] # SqlText(e.String)

\* a committed Project table with a hashed email and a NULL email_hash
C21_Witness ==
    /\ result["projects"] = "ok"
    /\ \E i \in 1..Len(table["projects"]) :
           /\ src["projects"][i].email.Valid
           /\ src["projects"][i].email.String # <<>>
           /\ table["projects"][i].email_hash # SqlNull
    /\ \E i \in 1..Len(table["projects"]) :
           /\ src["projects"][i].email.Valid
           /\ src["projects"][i].email.String = <<>>
           /\ table["projects"][i].email_hash = SqlNull

\* what a nullable source value of the given Go field must be stored as
StoredAs(v, field, sql) == IF v.Valid THEN <<sql, v[field]>> ELSE <<"NULL">>

C23_NoPrefixCommitted ==
    \A t \in Tables : result[t] = "ok" => Len(table[t]) = Len(src[t])

\* C24: no filtering and no de-duplication on non-key columns: on success the
\* count returned is the number of source rows, the table holds that many
\* rows, and row i of the table is source row i (so a Mention that refers to
\* no Project and a Project whose normalized code_url another Project has are
\* both there).
C24_CountIsSourceRows ==
    \A t \in Tables :
        result[t] = "ok" =>
            /\ count[t] = Len(src[t])
            /\ Len(table[t]) = count[t]
            /\ \A i \in 1..Len(table[t]) : table[t][i] = ExecArgs(t, src[t][i])

\* two rows of the Project query result have the same non-NULL record_id
DuplicateRecordID ==
    \E i, j \in 1..Len(src["projects"]) :
        /\ i < j
        /\ src["projects"][i].record_id.Valid
        /\ src["projects"][i].record_id = src["projects"][j].record_id

\* C25: the record_id values of a committed Project table are unique, and a
\* warehouse result with two rows of the same non-NULL record_id makes the
\* Project copy return an error.
C25_DuplicateFailsCopy ==
    /\ \A i, j \in 1..Len(table["projects"]) :
           (i # j /\ table["projects"][i].record_id # SqlNull) =>
               table["projects"][i].record_id # table["projects"][j].record_id
    /\ DuplicateRecordID => result["projects"] # "ok"

\* positions at which a request reads or writes cachedCompressedPath or
\* cacheCreatedAt, and whether it holds cacheMutex there
ReadsPair(r) == pc[r] \in {"rlocked", "logAge", "recheck", "removeOld"}
WritesPair(r) == pc[r] = "publish"
HoldsShared(r) == r \in readers
HoldsExclusive(r) == writer = r /\ pc[r] # "lockWait"

\* C26: the pair (cachedCompressedPath, cacheCreatedAt) is written only by a
\* request holding the exclusive lock and read only by a request holding the
\* shared or the exclusive lock; no read is concurrent with a write.
C26_PairAccessedUnderLock ==
    /\ \A r \in Req : WritesPair(r) => HoldsExclusive(r)
    /\ \A r \in Req : ReadsPair(r) => HoldsShared(r) \/ HoldsExclusive(r)
    /\ \A r1, r2 \in Req : ~(ReadsPair(r1) /\ WritesPair(r2))

\* C27: a step of serveCachedDB changes the status and the position of its
\* own request only, answers 500 when the artifact is missing, and leaves
\* the published path, cacheCreatedAt and every file as they are.
C27_DeliveryFailureLocal ==
    [][\A r \in Req :
           (pc[r] = "serve" /\ pc'[r] = "done") =>
               /\ dbPath[r] \notin disk => status'[r] = 500
               /\ \A q \in Req \ {r} : status'[q] = status[q] /\ pc'[q] = pc[q]
               /\ UNCHANGED <<cacheVars, fsVars>>]_vars

\* a request whose delivery failed (no generation error) while a path is
\* published
C27_Witness ==
    \E r \in Req :
        /\ pc[r] = "done"
        /\ status[r] = 500
        /\ ~genErr[r]
        /\ dbPath[r] \notin disk
        /\ cachedCompressedPath # NoPath

\* C28: a request that holds the exclusive lock in generateDB and finds the
\* cache fresh (path non-empty, within the TTL, file present) returns the
\* cached path and does no work: the step deletes and creates no file and
\* leaves the published path and cacheCreatedAt unchanged, and the request
\* has at no time a temporary file, an export or a generation error.
C28_DoubleCheckNoWork ==
    /\ [](\A r \in Req :
            (checked[r] # "no" /\ ~regen[r] /\ pc[r] \in {"serve", "done"}) =>
                /\ ~exported[r]
                /\ tmpPath[r] = NoPath
                /\ ~genErr[r])
    /\ [][\A r \in Req :
            ( /\ pc[r] = "recheck"
              /\ pc'[r] # "recheck"
              /\ cachedCompressedPath # NoPath
              /\ now - cacheCreatedAt <= cacheTTL
              /\ cachedCompressedPath \in disk ) =>
                /\ pc'[r] = "serve"
                /\ dbPath'[r] = cachedCompressedPath
                /\ ~regen'[r]
                /\ UNCHANGED <<cacheVars, fsVars, exported>>]_vars

\* a request that returned from the double-check with the path another
\* request published while it waited for the lock
C28_Witness ==
    \E r \in Req :
        /\ checked[r] # "no"
        /\ ~regen[r]
        /\ pc[r] = "serve"
        /\ dbPath[r] = cachedCompressedPath
        /\ dbPath[r] \in disk

\* the steps of one regeneration in the order of generateDB, after the
\* temporary file is opened
StepOrder ==
    <<"createTables", "copyProjects", "copyMentions", "closeSQLite",
      "zCreate", "zEncoder", "zOpen", "zCopy", "zClose", "removeTmp", "publish">>

\* the steps of compressWithZstd
Compression == {"zCreate", "zEncoder", "zOpen", "zCopy", "zClose"}

C30_PublishAfterCloseAndDelete ==
    /\ [](\A r \in Req :
            pc[r] = "publish" =>
                /\ tmpPath[r] \notin disk
                /\ ZstPath(tmpPath[r]) \in disk
                /\ ZstPath(tmpPath[r]) \in complete)
    /\ [](cachedCompressedPath \in disk => cachedCompressedPath \in complete)
    /\ [][\A r \in Req :
            /\ (tmpPath[r] \in disk /\ tmpPath[r] \notin disk' /\ ~genErr'[r]) =>
                   /\ pc[r] = "removeTmp"
                   /\ pc'[r] = "publish"
                   /\ tmpPath[r] \in complete
                   /\ ZstPath(tmpPath[r]) \in complete
                   /\ ZstPath(tmpPath[r]) \in disk'
            /\ (pc[r] = "publish" /\ pc'[r] # pc[r]) =>
                   /\ cachedCompressedPath' = ZstPath(tmpPath[r])
                   /\ cachedCompressedPath' \in disk' \cap complete'
                   /\ UNCHANGED fsVars]_vars

\* a request that published the complete compressed file it wrote, the
\* uncompressed file gone
C30_Witness ==
    \E r \in Req :
        /\ regen[r]
        /\ pc[r] = "serve"
        /\ tmpPath[r] # NoPath
        /\ tmpPath[r] \notin disk
        /\ cachedCompressedPath = ZstPath(tmpPath[r])
        /\ cachedCompressedPath \in disk \cap complete

\* the state of the cache entry for a path p created at time t, seen at time n
EntryState(p, t, n) ==
    IF p = NoPath THEN "Empty"
    ELSE IF n - t > cacheTTL THEN "Stale" ELSE "Fresh"

\* the step is a publication: the entry becomes the path just logged, stamped now
Published ==
    /\ Len(pubLog') = Len(pubLog) + 1
    /\ cachedCompressedPath' = pubLog'[Len(pubLog')].path
    /\ cacheCreatedAt' = now
    /\ now' = now

\* the step is the passing of time alone
Aged ==
    /\ now' > now
    /\ UNCHANGED cacheVars

\* C31 as stated: the entry leaves Empty only by a publication, goes from
\* Fresh to Stale only by the passing of time, returns to Empty only from
\* Stale, and makes no other transition between the three states.
C31_EmptyFreshStaleEmpty ==
    [][LET old == EntryState(cachedCompressedPath, cacheCreatedAt, now)
           new == EntryState(cachedCompressedPath', cacheCreatedAt', now')
       IN old # new =>
              \/ old = "Empty" /\ new = "Fresh" /\ Published
              \/ old = "Fresh" /\ new = "Stale" /\ Aged
              \/ old = "Stale" /\ new = "Empty"]_vars

\* C31: the entry leaves Empty only by a publication and then is Fresh, goes
\* from Fresh to Stale only by the passing of time, goes from Stale back to
\* Fresh only by a publication, and never returns to Empty; the pair changes
\* in no step other than a publication.
C31_EntryTransitions ==
    [][LET old == EntryState(cachedCompressedPath, cacheCreatedAt, now)
           new == EntryState(cachedCompressedPath', cacheCreatedAt', now')
       IN /\ old # new =>
                 \/ old = "Empty" /\ new = "Fresh" /\ Published
                 \/ old = "Fresh" /\ new = "Stale" /\ Aged
                 \/ old = "Stale" /\ new = "Fresh" /\ Published
          /\ ~UNCHANGED cacheVars => Published]_vars

\* a Stale entry was replaced by a second publication
C31_Witness ==
    /\ Len(pubLog) >= 2
    /\ pubLog[2].at - pubLog[1].at > cacheTTL
    /\ cachedCompressedPath = pubLog[2].path

\* C32: a path handed to a request by getCachedDB or generateDB names an
\* existing file at the moment the request's serveCachedDB opens it.
C32_PathExistsWhenOpened ==
    \A r \in Req : pc[r] = "serve" => dbPath[r] \in disk

\* C33: whenever no request holds the exclusive lock, at most one file
\* created by generateDB is on disk, and a file that is on disk is the one
\* the published path names.
C33_NoArtifactLeak ==
    (\A r \in Req : ~HoldsExclusive(r)) =>
        /\ Cardinality(disk) <= 1
        /\ \A f \in disk : f = cachedCompressedPath

\* no lock held after two publications and a failed regeneration that had
\* created its temporary file: the second artifact is the only file
C33_Witness ==
    /\ \A r \in Req : ~HoldsExclusive(r)
    /\ Len(pubLog) >= 2
    /\ disk = {cachedCompressedPath}
    /\ \E r \in Req : genErr[r] /\ tmpPath[r] # NoPath

\* C34: getCachedDB and the double-check of generateDB accept exactly the
\* same states: for every published path, age and outcome of os.Stat,
\* getCachedDB returns (path, true) if and only if generateDB returns the
\* cached path without regenerating.
C34_SameAcceptance ==
    (fast # NotCalled /\ slow # NotCalled) => fast = slow

\* C35: a path is returned to a request only by a step in which it is the
\* published path, the last one published, and now - cacheCreatedAt does not
\* exceed cacheTTL; a request is handed a path once.
C35_NoStaleServe ==
    [][\A r \in Req :
           dbPath'[r] # dbPath[r] =>
               /\ dbPath[r] = NoPath
               /\ dbPath'[r] = cachedCompressedPath'
               /\ now' - cacheCreatedAt' <= cacheTTL
               /\ Len(pubLog') >= 1
               /\ dbPath'[r] = pubLog'[Len(pubLog')].path
               /\ now' = now]_vars

\* getCachedDB has just returned the path of an entry aged exactly cacheTTL
C35_Witness ==
    \E r \in Req :
        /\ pc[r] = "logAge"
        /\ dbPath[r] = cachedCompressedPath
        /\ dbPath[r] # NoPath
        /\ now - cacheCreatedAt = cacheTTL

\* C36: every string normalizeURL returns begins with http:// or https://, so
\* that none begins with javascript:, data:, vbscript: or file:, and none is
\* a bare scheme fragment.
C36_ResultHasWebPrefix ==
    (upc = "ret" /\ urlOut.Valid) =>
        /\ HasWebPrefix(urlOut.String)
        /\ \A k \in 1..Len(dangerousSchemes) :
               ~HasPrefix(urlOut.String, dangerousSchemes[k])
        /\ urlOut.String \notin {<<"h", "t", "t", "p", "s", ":">>,
                                 <<"h", "t", "t", "p", ":">>,
                                 <<"h", "t", "t", "p", "s", ":", "/">>,
                                 <<"h", "t", "t", "p", ":", "/">>}

====
